---- MODULE Spec2Model ----
(***************************************************************************)
(* Model of moka's ValueInitializer (src/src/sync/value_initializer.rs):   *)
(* the single-flight protocol do_try_init shared by init_or_read,          *)
(* try_init_or_read and optionally_init_or_read, over the waiter map       *)
(* (key, TypeId) -> Waiter.                                                *)
(*                                                                         *)
(* A Waiter (TrioArc<RwLock<Option<Result<V, ErrorObject>>>>) is a cell    *)
(* with a content and a write lock.  Cells are named by small integers; a  *)
(* cell exists as long as something refers to it (the map, a requester's   *)
(* local `waiter` or `res`), which is the reference counting of TrioArc.   *)
(* A requester's `waiter` and `res` keep naming its cell after its request *)
(* has ended, so that the properties can speak of the cell it used.        *)
(* A read lock is only ever taken for the duration of one inspection of    *)
(* the content and nothing but the creator write-locks a cell, so a read   *)
(* is one atomic step that is enabled when the write lock is free.         *)
(*                                                                         *)
(* Values are only cloned and compared by the code, so the value (error    *)
(* value, panic payload) a requester's closure produces is modelled by the *)
(* requester's number: all closures produce distinguishable values.        *)
(***************************************************************************)
EXTENDS Integers, FiniteSets, Sequences, TLC

\* ---------------------------------------------------------------- bounds
NumProcs == 3            \* requesters: threads that each make one request, at any time

\* const MAX_RETRIES: usize = 200 in the source.  The protocol uses it only
\* in the comparison `retries < MAX_RETRIES`; the model scales it down so
\* that retry exhaustion is reached with NumProcs requests.
MAX_RETRIES == 2

Procs == 1..NumProcs
Keys == {1, 2}           \* the keys requests are made for

\* TypeId::of::<E>() of the error types the entry points are called with.
UnitType == "Unit"                       \* ()
AbsenceType == "OptionallyNone"          \* super::OptionallyNone
UserErrType == "E1"                      \* a caller's own error type
TryErrTypes == {UserErrType}             \* E of try_init_or_read::<F, E>
TypeIds == {UnitType, AbsenceType, UserErrType}

NoCell == 0

\* WaiterValue<V> = Option<Result<V, ErrorObject>>
None == [k |-> "None", x |-> 0, t |-> "-"]
SomeOk(v) == [k |-> "Ok", x |-> v, t |-> "-"]
\* Some(Err(obj)) where obj = Arc::new(e) for e of type t: the error object
\* is dynamically typed, it carries the type it was built from.
SomeErr(t, e) == [k |-> "Err", x |-> e, t |-> t]

\* What a request ends with: an InitResult, or a panic leaving the call.
NoResult == [k |-> "-", x |-> 0]
Initialized(v) == [k |-> "Initialized", x |-> v]
ReadExisting(v) == [k |-> "ReadExisting", x |-> v]
InitErr(e) == [k |-> "InitErr", x |-> e]
InitPanic(payload) == [k |-> "InitPanic", x |-> payload]      \* resume_unwind(payload)
TooManyRetries(n) == [k |-> "TooManyRetries", x |-> n]        \* panic!("Too many retries...")
DowncastPanic == [k |-> "DowncastPanic", x |-> 0]             \* .downcast().unwrap() on Err

\* The value of the one value of a zero-sized type: (), OptionallyNone.
UnitValue == 0

\* ------------------------------------------------------- pure operations

\* (variant: optionally_init_or_read takes the type_id of init_or_read)
TypeIdOf_unit_for_opt(entry, E) ==
    CASE entry = "init_or_read" -> UnitType
      [] entry = "try_init_or_read" -> E
      [] entry = "optionally_init_or_read" -> UnitType

\* type_id of the three entry points
TypeIdOf(entry, E) ==
    CASE entry = "init_or_read" -> UnitType
      [] entry = "try_init_or_read" -> E
      [] entry = "optionally_init_or_read" -> AbsenceType

\* (variant: the type_id is left out of the map key)
cht_key_hash_untagged(key, type_id) == <<key, UnitType>>

\* cht_key_hash: the map key is the pair (key, type_id)
cht_key_hash(key, type_id) == <<key, type_id>>

\* (variant: an insert that does not look for an existing entry)
try_insert_waiter_overwrite(ws, key, type_id, waiter) ==
    LET ck == <<key, type_id>> IN
    [waiters |-> [c \in DOMAIN ws \cup {ck} |-> IF c = ck THEN waiter ELSE ws[c]],
     res |-> NoCell]

\* (variant: one entry for the whole map, whatever the key and type_id)
try_insert_waiter_one_for_all(ws, key, type_id, waiter) ==
    LET ck == <<key, type_id>> IN
    IF DOMAIN ws # {}
      THEN [waiters |-> ws, res |-> ws[CHOOSE c \in DOMAIN ws : TRUE]]
      ELSE [waiters |-> [c \in {ck} |-> waiter], res |-> NoCell]

\* waiters.insert_if_not_present(cht_key, hash, waiter): atomic; returns the
\* map and the existing waiter (NoCell when ours was inserted).
try_insert_waiter(ws, key, type_id, waiter) ==
    LET ck == cht_key_hash(key, type_id) IN
    IF ck \in DOMAIN ws
      THEN [waiters |-> ws, res |-> ws[ck]]
      ELSE [waiters |-> [c \in DOMAIN ws \cup {ck} |-> IF c = ck THEN waiter ELSE ws[c]],
            res |-> NoCell]

\* (variant: the removal takes the entries of every type_id of the key)
remove_waiter_any_tag(ws, key, type_id) ==
    [c \in {d \in DOMAIN ws : d[1] # key} |-> ws[c]]

\* (variant: the removal removes nothing)
remove_waiter_nothing(ws, key, type_id) == ws

\* waiters.remove(hash, |k| k == &cht_key)
remove_waiter(ws, key, type_id) ==
    LET ck == cht_key_hash(key, type_id) IN
    [c \in DOMAIN ws \ {ck} |-> ws[c]]

\* Arc<dyn Any>::downcast::<E>(): Ok iff the object was built from an E
downcast(obj, E) ==
    IF obj.t = E THEN InitErr(obj.x) ELSE DowncastPanic

\* What the init closure of requester p can evaluate to, per entry point.
\* k = "Panic" is catch_unwind's Err(payload).
InitOutcomes(entry, E, p) ==
    CASE entry = "init_or_read" ->
            {[k |-> "Value", x |-> p], [k |-> "Panic", x |-> p]}
      [] entry = "try_init_or_read" ->
            {[k |-> "Ok", x |-> p],
             [k |-> "Err", x |-> IF E = UnitType THEN UnitValue ELSE p],
             [k |-> "Panic", x |-> p]}
      [] entry = "optionally_init_or_read" ->
            {[k |-> "Some", x |-> p], [k |-> "None", x |-> 0], [k |-> "Panic", x |-> p]}

\* (variant: the entry is removed after a success as well)
post_init_init_removing(value) ==
    [lock |-> SomeOk(value.x), remove |-> TRUE, result |-> Initialized(value.x)]

\* The post_init closures: the content written through the write guard,
\* whether remove_waiter is called, and the InitResult returned.
post_init_init(value) ==
    [lock |-> SomeOk(value.x), remove |-> FALSE, result |-> Initialized(value.x)]

\* (variant: the error stored for the readers is not the one returned)
post_init_try_other_error(E, value) ==
    IF value.k = "Ok"
      THEN [lock |-> SomeOk(value.x), remove |-> FALSE, result |-> Initialized(value.x)]
      ELSE [lock |-> SomeErr(E, UnitValue), remove |-> TRUE,
            result |-> InitErr(value.x)]

\* (variant: remove_waiter is not called after an error)
post_init_try_keeping(E, value) ==
    IF value.k = "Ok"
      THEN [lock |-> SomeOk(value.x), remove |-> FALSE, result |-> Initialized(value.x)]
      ELSE [lock |-> SomeErr(E, value.x), remove |-> FALSE,
            result |-> InitErr(value.x)]

\* (variant: remove_waiter is called after a success as well)
post_init_try_removing(E, value) ==
    IF value.k = "Ok"
      THEN [lock |-> SomeOk(value.x), remove |-> TRUE, result |-> Initialized(value.x)]
      ELSE [lock |-> SomeErr(E, value.x), remove |-> TRUE,
            result |-> InitErr(value.x)]

post_init_try(E, value) ==
    IF value.k = "Ok"
      THEN [lock |-> SomeOk(value.x), remove |-> FALSE, result |-> Initialized(value.x)]
      ELSE [lock |-> SomeErr(E, value.x), remove |-> TRUE,
            result |-> downcast(SomeErr(E, value.x), E)]

\* (variant: None is written as a success holding the sentinel)
post_init_opt_as_value(value) ==
    IF value.k = "Some"
      THEN [lock |-> SomeOk(value.x), remove |-> FALSE, result |-> Initialized(value.x)]
      ELSE [lock |-> SomeOk(UnitValue), remove |-> TRUE, result |-> InitErr(UnitValue)]

\* (variant: the entry is kept when the closure returned None)
post_init_opt_keeping(value) ==
    IF value.k = "Some"
      THEN [lock |-> SomeOk(value.x), remove |-> FALSE, result |-> Initialized(value.x)]
      ELSE [lock |-> SomeErr(AbsenceType, UnitValue), remove |-> FALSE,
            result |-> downcast(SomeErr(AbsenceType, UnitValue), AbsenceType)]

post_init_opt(value) ==
    IF value.k = "Some"
      THEN [lock |-> SomeOk(value.x), remove |-> FALSE, result |-> Initialized(value.x)]
      ELSE [lock |-> SomeErr(AbsenceType, UnitValue), remove |-> TRUE,
            result |-> downcast(SomeErr(AbsenceType, UnitValue), AbsenceType)]

post_init(entry, E, value) ==
    CASE entry = "init_or_read" -> post_init_init(value)
      [] entry = "try_init_or_read" -> post_init_try(E, value)
      [] entry = "optionally_init_or_read" -> post_init_opt(value)

\* (variant: the panic arm does not remove the waiter)
on_panic_keeping(value) ==
    [lock |-> None, remove |-> FALSE, result |-> InitPanic(value.x)]

\* The Err(payload) arm of catch_unwind: *lock = None; remove_waiter;
\* resume_unwind(payload).
on_panic(value) ==
    [lock |-> None, remove |-> TRUE, result |-> InitPanic(value.x)]

\* (variant: an empty cell is fatal at once, without a retry)
read_arm_no_retry(content, E, retries) ==
    CASE content.k = "Ok" -> [again |-> FALSE, result |-> ReadExisting(content.x)]
      [] content.k = "Err" -> [again |-> FALSE, result |-> downcast(content, E)]
      [] content.k = "None" -> [again |-> FALSE, result |-> TooManyRetries(retries)]

\* (variant: the bound is compared with <=, one more retry is allowed)
read_arm_one_more(content, E, retries) ==
    CASE content.k = "Ok" -> [again |-> FALSE, result |-> ReadExisting(content.x)]
      [] content.k = "Err" -> [again |-> FALSE, result |-> downcast(content, E)]
      [] content.k = "None" ->
            IF retries <= MAX_RETRIES
              THEN [again |-> TRUE, result |-> NoResult]
              ELSE [again |-> FALSE, result |-> TooManyRetries(retries)]

\* The arms of `match &*res.read()`.  retries is the value after `retries += 1`.
read_arm(content, E, retries) ==
    CASE content.k = "Ok" -> [again |-> FALSE, result |-> ReadExisting(content.x)]
      [] content.k = "Err" -> [again |-> FALSE, result |-> downcast(content, E)]
      [] content.k = "None" ->
            IF retries < MAX_RETRIES
              THEN [again |-> TRUE, result |-> NoResult]
              ELSE [again |-> FALSE, result |-> TooManyRetries(retries)]

\* ------------------------------------------------------------------ state
VARIABLES
    waiters,        \* ValueInitializer::waiters: cht key -> cell
    cells,          \* the Waiters that exist: cell -> [content, wlock, ...]
    pc,             \* where each requester is in do_try_init
    entry,          \* the entry point of the requester's current request
    key,            \* its key
    type_id,        \* its type_id (the TypeId of its E)
    retries,        \* its `retries`
    own,            \* its `waiter` (with `lock`, the write guard on it)
    res,            \* its `res`, the existing waiter the insert returned
    value,          \* what catch_unwind(init) gave it
    result,         \* what its request ended with
    removedOutside, \* remove_waiter has been called by other code than the protocol
    stats,          \* history, per (key, type_id): closures run, requests ended, by kind
    attempts,       \* history, per requester: its passes through the top of the loop
    emptyReads      \* history, per requester: the cells it has read and found empty, in order

vars == <<waiters, cells, pc, entry, key, type_id, retries, own, res, value,
          result, removedOutside, stats, attempts, emptyReads>>

NoValue == [k |-> "-", x |-> 0]

\* The (key, type_id) pairs requests are made for.
Slots == Keys \X TypeIds

NoStats == [execs |-> 0, panics |-> 0, errs |-> 0, dirty |-> FALSE, inits |-> 0, reads |-> 0, ended |-> 0, won |-> {}]

\* history: a closure was run for slot s and evaluated to out
RanInit(st, s, out) ==
    [st EXCEPT ![s].execs = @ + 1,
               ![s].panics = @ + (IF out.k = "Panic" THEN 1 ELSE 0),
               ![s].errs = @ + (IF out.k \in {"Err", "None"} THEN 1 ELSE 0),
               ![s].dirty = @ \/ out.k \in {"Err", "None", "Panic"}]

\* history: a request for slot s ended with r
Ended(st, s, r) ==
    [st EXCEPT ![s].ended = @ + 1,
               ![s].inits = @ + (IF r.k = "Initialized" THEN 1 ELSE 0),
               ![s].reads = @ + (IF r.k = "ReadExisting" THEN 1 ELSE 0),
               ![s].won = @ \cup (IF r.k = "Initialized" THEN {r.x} ELSE {})]

\* (variant: the cell is inserted without its write lock taken)
NewCell_unlocked(p, ky, ty) ==
    [content |-> None, wlock |-> FALSE, owner |-> p, key |-> ky, type_id |-> ty,
     out |-> NoValue]

\* TrioArc::new(RwLock::new(None)); waiter.write().  The ghost fields say who
\* created the cell and for which key and type_id.
NewCell(p, ky, ty) ==
    [content |-> None, wlock |-> TRUE, owner |-> p, key |-> ky, type_id |-> ty,
     out |-> NoValue]

\* a name no existing cell has
FreshCell == CHOOSE c \in 1..(Cardinality(DOMAIN cells) + 1) : c \notin DOMAIN cells

\* Reference counting: the cells something still refers to.
Referenced(ws, ownf, resf) ==
    {ws[c] : c \in DOMAIN ws} \cup {ownf[p] : p \in Procs} \cup {resf[p] : p \in Procs}

Collect(cs, ws, ownf, resf) ==
    [c \in DOMAIN cs \cap Referenced(ws, ownf, resf) |-> cs[c]]

Init ==
    /\ waiters = <<>>
    /\ cells = <<>>
    /\ pc = [p \in Procs |-> "idle"]
    /\ entry = [p \in Procs |-> "init_or_read"]
    /\ key = [p \in Procs |-> 1]
    /\ type_id = [p \in Procs |-> UnitType]
    /\ retries = [p \in Procs |-> 0]
    /\ own = [p \in Procs |-> NoCell]
    /\ res = [p \in Procs |-> NoCell]
    /\ value = [p \in Procs |-> NoValue]
    /\ result = [p \in Procs |-> NoResult]
    /\ removedOutside = FALSE
    /\ stats = [s \in Slots |-> NoStats]
    /\ attempts = [p \in Procs |-> 0]
    /\ emptyReads = [p \in Procs |-> <<>>]

\* One pass through the top of the loop, by requester p for (ky, ty):
\*   let waiter = TrioArc::new(RwLock::new(None)); let mut lock = waiter.write();
\*   match self.try_insert_waiter(key, type_id, &waiter)
\*     None => our waiter was inserted, go on to the init closure
\*     Some(res) => std::mem::drop(lock), go on to res.read()
\* The new cell is known to nobody before the insert, so creating and locking
\* it is one step with the insert.
Attempt(p, ky, ty) ==
    LET waiter == FreshCell
        r == try_insert_waiter(waiters, ky, ty, waiter) IN
    /\ waiters' = r.waiters
    /\ attempts' = [attempts EXCEPT ![p] = @ + 1]
    /\ IF r.res = NoCell
         THEN /\ pc' = [pc EXCEPT ![p] = "init"]
              /\ own' = [own EXCEPT ![p] = waiter]
              /\ res' = [res EXCEPT ![p] = NoCell]
              /\ cells' = [c \in DOMAIN cells \cup {waiter} |->
                              IF c = waiter THEN NewCell(p, ky, ty) ELSE cells[c]]
         ELSE /\ pc' = [pc EXCEPT ![p] = "read"]
              /\ own' = [own EXCEPT ![p] = NoCell]
              /\ res' = [res EXCEPT ![p] = r.res]
              /\ cells' = cells

\* A requester calls one of the three entry points: `let mut retries = 0`,
\* and its first pass through the loop.  (What the call does before its
\* insert is local to it, so the call is one step with the insert.)
\* Requests that one thread makes one after the other are requests of two
\* requesters here, the second called after the first has ended; requesters
\* are numbered in the order of their calls, and keys in the order of their
\* first use.
StartCall(p, en, ky, E) ==
    /\ pc[p] = "idle"
    /\ \A q \in Procs : q < p => pc[q] # "idle"
    /\ \A k \in Keys : k < ky => \E q \in Procs : pc[q] # "idle" /\ key[q] = k
    /\ entry' = [entry EXCEPT ![p] = en]
    /\ key' = [key EXCEPT ![p] = ky]
    /\ type_id' = [type_id EXCEPT ![p] = TypeIdOf(en, E)]
    /\ Attempt(p, ky, TypeIdOf(en, E))
    /\ UNCHANGED <<retries, value, result, removedOutside, stats, emptyReads>>

Call(p) ==
    \/ \E ky \in Keys : StartCall(p, "init_or_read", ky, UnitType)
    \/ \E ky \in Keys, E \in TryErrTypes : StartCall(p, "try_init_or_read", ky, E)
    \/ \E ky \in Keys : StartCall(p, "optionally_init_or_read", ky, AbsenceType)

\* `continue`: the next pass through the loop after an empty read
TryInsertWaiter(p) ==
    /\ pc[p] = "loop"
    /\ Attempt(p, key[p], type_id[p])
    /\ UNCHANGED <<entry, key, type_id, retries, value, result, removedOutside, stats,
                   emptyReads>>

\* what the writer does with the closure's outcome
Outcome(v, en, E) ==
    IF v.k = "Panic" THEN on_panic(v) ELSE post_init(en, E, v)

\* catch_unwind(AssertUnwindSafe(init)): the closure runs and returns or
\* panics, and its outcome is written through the write guard:
\*   Ok(value) => post_init: *lock = Some(..);  Err(payload) => *lock = None
\* (the write is under the write lock, no one sees it before the release).
RunInit(p) ==
    /\ pc[p] = "init"
    /\ \E out \in InitOutcomes(entry[p], type_id[p], p) :
          LET o == Outcome(out, entry[p], type_id[p]) IN
          /\ value' = [value EXCEPT ![p] = out]
          /\ cells' = [cells EXCEPT ![own[p]].out = out, ![own[p]].content = o.lock]
          /\ pc' = [pc EXCEPT ![p] = IF o.remove THEN "remove" ELSE "return"]
          /\ stats' = RanInit(stats, <<key[p], type_id[p]>>, out)
    /\ UNCHANGED <<waiters, entry, key, type_id, retries, own, res, result, removedOutside,
                   attempts, emptyReads>>

\* (variant: the removal also clears the cell)
RemoveWaiter_clearing(p) ==
    /\ pc[p] = "remove"
    /\ waiters' = remove_waiter(waiters, key[p], type_id[p])
    /\ cells' = [cells EXCEPT ![own[p]].content = None]
    /\ pc' = [pc EXCEPT ![p] = "return"]
    /\ UNCHANGED <<entry, key, type_id, retries, own, res, value, result, removedOutside,
                   stats, attempts, emptyReads>>

\* self.remove_waiter(key, type_id) in post_init's failure arms and in the panic arm
RemoveWaiter(p) ==
    /\ pc[p] = "remove"
    /\ waiters' = remove_waiter(waiters, key[p], type_id[p])
    /\ cells' = Collect(cells, waiters', own, res)
    /\ pc' = [pc EXCEPT ![p] = "return"]
    /\ UNCHANGED <<entry, key, type_id, retries, own, res, value, result, removedOutside,
                   stats, attempts, emptyReads>>

\* (variant: after a panic of its closure the writer goes round the loop again)
Return_retrying(p) ==
    /\ pc[p] = "return"
    /\ result' = [result EXCEPT ![p] = IF value[p].k = "Panic" THEN NoResult
                                       ELSE Outcome(value[p], entry[p], type_id[p]).result]
    /\ cells' = [cells EXCEPT ![own[p]].wlock = FALSE]
    /\ pc' = [pc EXCEPT ![p] = IF value[p].k = "Panic" THEN "loop" ELSE "done"]
    /\ stats' = IF value[p].k = "Panic" THEN stats
                ELSE Ended(stats, <<key[p], type_id[p]>>, result'[p])
    /\ UNCHANGED <<waiters, entry, key, type_id, retries, own, res, value, removedOutside,
                   attempts, emptyReads>>

\* (variant: the request ends without its write guard being dropped)
Return_keeping_lock(p) ==
    /\ pc[p] = "return"
    /\ result' = [result EXCEPT ![p] = Outcome(value[p], entry[p], type_id[p]).result]
    /\ pc' = [pc EXCEPT ![p] = "done"]
    /\ stats' = Ended(stats, <<key[p], type_id[p]>>, result'[p])
    /\ UNCHANGED <<waiters, cells, entry, key, type_id, retries, own, res, value,
                   removedOutside, attempts, emptyReads>>

\* return post_init(..) / resume_unwind(payload): the request ends and the
\* write guard is dropped.
Return(p) ==
    /\ pc[p] = "return"
    /\ result' = [result EXCEPT ![p] = Outcome(value[p], entry[p], type_id[p]).result]
    /\ cells' = [cells EXCEPT ![own[p]].wlock = FALSE]
    /\ pc' = [pc EXCEPT ![p] = "done"]
    /\ stats' = Ended(stats, <<key[p], type_id[p]>>, result'[p])
    /\ UNCHANGED <<waiters, entry, key, type_id, retries, own, res, value, removedOutside,
                   attempts, emptyReads>>

\* match &*res.read(): blocks while the writer holds the write lock
Read(p) ==
    /\ pc[p] = "read"
    /\ ~cells[res[p]].wlock
    /\ LET isNone == cells[res[p]].content.k = "None"
           n == IF isNone THEN retries[p] + 1 ELSE retries[p]
           arm == read_arm(cells[res[p]].content, type_id[p], n) IN
       /\ retries' = [retries EXCEPT ![p] = n]
       /\ emptyReads' = [emptyReads EXCEPT ![p] = IF isNone THEN Append(@, res[p]) ELSE @]
       /\ result' = [result EXCEPT ![p] = arm.result]
       /\ pc' = [pc EXCEPT ![p] = IF arm.again THEN "loop" ELSE "done"]
       \* `continue` drops res; at a return it keeps naming the cell read
       /\ res' = [res EXCEPT ![p] = IF arm.again THEN NoCell ELSE res[p]]
       /\ cells' = Collect(cells, waiters, own, res')
       /\ stats' = IF arm.again THEN stats ELSE Ended(stats, <<key[p], type_id[p]>>, arm.result)
    /\ UNCHANGED <<waiters, entry, key, type_id, own, value, removedOutside, attempts>>

\* remove_waiter is pub(crate): a call from outside the protocol
RemoveWaiterOutside(ky, ty) ==
    /\ cht_key_hash(ky, ty) \in DOMAIN waiters
    /\ waiters' = remove_waiter(waiters, ky, ty)
    /\ cells' = Collect(cells, waiters', own, res)
    /\ removedOutside' = TRUE
    /\ UNCHANGED <<pc, entry, key, type_id, retries, own, res, value, result, stats,
                   attempts, emptyReads>>

Step(p) ==
    \/ Call(p)
    \/ TryInsertWaiter(p)
    \/ RunInit(p)
    \/ RemoveWaiter(p)
    \/ Return(p)
    \/ Read(p)

\* The protocol: requests through the three entry points only.
Next == \E p \in Procs : Step(p)

Spec == Init /\ [][Next]_vars

\* The protocol together with calls of remove_waiter from outside.
NextExt ==
    \/ \E p \in Procs : Step(p)
    \/ \E ky \in Keys, ty \in TypeIds : RemoveWaiterOutside(ky, ty)

SpecExt == Init /\ [][NextExt]_vars

\* What a requester under way does next.
Progress(p) ==
    \/ TryInsertWaiter(p)
    \/ RunInit(p)
    \/ RemoveWaiter(p)
    \/ Return(p)
    \/ Read(p)

\* The protocol where every thread under way keeps running, every init
\* closure returns or panics, and a read lock that can be had is had in the
\* end.  Nobody is obliged to call.
FairSpec == Spec /\ \A p \in Procs : WF_vars(Progress(p))

TypeOK ==
    /\ \A p \in Procs : pc[p] \in {"idle", "loop", "init", "remove", "return", "read", "done"}
    /\ \A c \in DOMAIN waiters : waiters[c] \in DOMAIN cells
    /\ \A p \in Procs : own[p] \in DOMAIN cells \cup {NoCell}
    /\ \A p \in Procs : res[p] \in DOMAIN cells \cup {NoCell}
\* ----------------------------------------------------------------- claims
SlotOf(p) == <<key[p], type_id[p]>>
InMap(c) == \E ck \in DOMAIN waiters : waiters[ck] = c

\* C1 (single-flight): for a (key, type_id) on which every closure that ran
\* returned a success value, at most one closure has run in total; once a
\* request for it has ended, exactly one closure has run, exactly one request
\* has returned Initialized, every other ended request has returned
\* ReadExisting, and each ReadExisting carries the value the Initialized one
\* returned.  (Spec has no call of remove_waiter from outside.)
C1_SingleFlight ==
    \A s \in Slots : ~stats[s].dirty =>
        /\ stats[s].execs <= 1
        /\ stats[s].ended > 0 =>
              /\ stats[s].execs = 1
              /\ stats[s].inits = 1
              /\ stats[s].reads = stats[s].ended - 1
        /\ \A p \in Procs :
              (pc[p] = "done" /\ SlotOf(p) = s /\ result[p].k = "ReadExisting")
                  => stats[s].won = {result[p].x}

\* three requesters of one entry point and one key have all ended, one of
\* them Initialized and two ReadExisting
C1_Witness ==
    \E s \in Slots :
        /\ ~stats[s].dirty /\ stats[s].ended = 3 /\ stats[s].inits = 1 /\ stats[s].reads = 2
        /\ \A p \in Procs : pc[p] = "done" /\ SlotOf(p) = s /\ entry[p] = entry[1]
        /\ Cardinality({p \in Procs : result[p].k = "ReadExisting"}) = 2

\* C2 (mutual exclusion per (key, type_id)): no two requesters for the same
\* (key, type_id) run their closures at the same time; while one runs its
\* closure its cell is the one stored under the (key, type_id), so that every
\* contender's insert returns that cell and makes the contender a reader; and
\* no cell is the `waiter` of two requesters.
C2_OneWriter ==
    /\ \A p, q \in Procs :
          (p # q /\ pc[p] = "init" /\ pc[q] = "init") => SlotOf(p) # SlotOf(q)
    /\ \A p \in Procs :
          pc[p] = "init" =>
              /\ SlotOf(p) \in DOMAIN waiters
              /\ waiters[SlotOf(p)] = own[p]
    /\ \A p, q \in Procs : (p # q /\ own[p] # NoCell) => own[p] # own[q]

\* one requester runs its closure while the two others wait on its cell
C2_Witness ==
    \E p \in Procs :
        /\ pc[p] = "init"
        /\ \A q \in Procs \ {p} : pc[q] = "read" /\ SlotOf(q) = SlotOf(p) /\ res[q] = own[p]

\* C3 (tag isolation): the cell a requester got from the insert was inserted
\* by a requester for the same key and the same type_id; a requester that
\* runs its closure does so as the writer of a cell of its own, made for its
\* own key and type_id, and only requesters for that key and type_id wait on
\* that cell.
C3_TagIsolation ==
    /\ \A p \in Procs :
          res[p] # NoCell =>
              /\ cells[res[p]].key = key[p]
              /\ cells[res[p]].type_id = type_id[p]
    /\ \A p \in Procs :
          pc[p] = "init" =>
              /\ cells[own[p]].owner = p
              /\ cells[own[p]].key = key[p]
              /\ cells[own[p]].type_id = type_id[p]
              /\ \A q \in Procs : res[q] = own[p] => SlotOf(q) = SlotOf(p)

\* two requesters for the same key and different type_ids run their closures
\* at the same time, and a third waits on the cell of its own type_id
C3_Witness ==
    \E p, q, r \in Procs :
        /\ pc[p] = "init" /\ pc[q] = "init" /\ pc[r] = "read"
        /\ key[p] = key[q] /\ type_id[p] # type_id[q]
        /\ SlotOf(r) = SlotOf(p) /\ res[r] = own[p]
\* the cell a requester's ended request wrote or read
CellOf(p) == IF own[p] # NoCell THEN own[p] ELSE res[p]
AbsenceMarker == InitErr(UnitValue)

\* C4 (error fidelity): a writer whose try_init_or_read closure returned
\* Err(e) returns InitErr(e), and every requester that read the cell of a
\* writer whose closure returned Err(e) returns InitErr(e).
C4_ErrorFidelity ==
    \A p \in Procs :
        pc[p] = "done" =>
            /\ (own[p] # NoCell /\ value[p].k = "Err") => result[p] = InitErr(value[p].x)
            /\ (res[p] # NoCell /\ cells[res[p]].out.k = "Err")
                   => result[p] = InitErr(cells[res[p]].out.x)

\* a writer and a reader of its cell have both returned the writer's error
\* while a requester for the same key and another type_id runs its closure
C4_Witness ==
    \E p, q, r \in Procs :
        /\ pc[p] = "done" /\ own[p] # NoCell /\ value[p].k = "Err"
        /\ pc[q] = "done" /\ res[q] = own[p]
        /\ result[q] = InitErr(value[p].x) /\ result[p] = result[q]
        /\ pc[r] = "init" /\ key[r] = key[p] /\ type_id[r] # type_id[p]

\* C5 (tagging invariant): a Failure held by a cell made for type_id T wraps
\* an error object built from a value of the type T denotes (the sentinel for
\* the absence type), and no request ends with a failed downcast.
C5_Tagging ==
    /\ \A c \in DOMAIN cells :
          cells[c].content.k = "Err" =>
              /\ cells[c].content.t = cells[c].type_id
              /\ cells[c].type_id = AbsenceType => cells[c].content.x = UnitValue
    /\ \A p \in Procs : result[p] # DowncastPanic

\* a reader has downcast the Failure of a cell while another cell, for the
\* same key and another type_id, exists
C5_Witness ==
    \E p \in Procs :
        /\ pc[p] = "done" /\ res[p] # NoCell /\ result[p].k = "InitErr"
        /\ cells[res[p]].content.k = "Err"
        /\ \E c \in DOMAIN cells : cells[c].key = key[p] /\ cells[c].type_id # type_id[p]

\* C6 (absence mapping): when the closure of optionally_init_or_read returns
\* None, its cell holds the Failure of the absence sentinel, and the writer
\* and every requester that read that cell return InitErr of the sentinel
\* (so none of them returns Initialized or ReadExisting).
C6_AbsenceMapping ==
    /\ \A c \in DOMAIN cells :
          cells[c].out.k = "None" => cells[c].content = SomeErr(AbsenceType, UnitValue)
    /\ \A p \in Procs :
          (pc[p] = "done" /\ CellOf(p) # NoCell /\ cells[CellOf(p)].out.k = "None")
              => (result[p] = AbsenceMarker /\ type_id[p] = AbsenceType)

\* the writer whose closure returned None and two readers of its cell have
\* all returned the absence marker
C6_Witness ==
    \E p \in Procs :
        /\ pc[p] = "done" /\ own[p] # NoCell /\ value[p].k = "None" /\ result[p] = AbsenceMarker
        /\ \A q \in Procs \ {p} : pc[q] = "done" /\ res[q] = own[p] /\ result[q] = AbsenceMarker

\* C7 (non-retention on failure): once a requester has returned InitErr, the
\* cell that held that failure is not in the map; a cell holding a Failure
\* is in the map only while its writer has not yet called remove_waiter, so
\* no request called afterwards can read it.
C7_NonRetention ==
    /\ \A p \in Procs :
          (pc[p] = "done" /\ result[p].k = "InitErr") => ~InMap(CellOf(p))
    /\ \A ck \in DOMAIN waiters :
          cells[waiters[ck]].content.k = "Err" =>
              /\ cells[waiters[ck]].wlock
              /\ pc[cells[waiters[ck]].owner] = "remove"
              /\ own[cells[waiters[ck]].owner] = waiters[ck]

\* after one request returned InitErr for a (key, type_id), a later request
\* for it has run its own closure
C7_Witness ==
    \E p, q \in Procs :
        /\ pc[p] = "done" /\ result[p].k = "InitErr"
        /\ SlotOf(q) = SlotOf(p) /\ q > p
        /\ pc[q] = "done" /\ result[q].k = "Initialized"
        /\ stats[SlotOf(p)].execs = 2

\* C8 (retain on success): the protocol never removes or changes an entry
\* that holds a Success; a cell holding a Success is the one stored under its
\* (key, type_id); a pass through the loop for a (key, type_id) under which a
\* Success is stored loses the insert and gets that cell; and a requester
\* that got a cell holding a Success has not run its closure and ends with
\* ReadExisting of that value.  (Spec has no call of remove_waiter from
\* outside.)
C8_RetainOnSuccess ==
    /\ [][\A ck \in DOMAIN waiters :
            cells[waiters[ck]].content.k = "Ok" =>
                /\ ck \in DOMAIN waiters'
                /\ waiters'[ck] = waiters[ck]
                /\ cells'[waiters[ck]].content = cells[waiters[ck]].content
                /\ \A p \in Procs :
                      (pc[p] \in {"idle", "loop"} /\ pc'[p] # pc[p] /\ SlotOf(p)' = ck)
                          => (pc'[p] = "read" /\ res'[p] = waiters[ck])]_vars
    /\ [](\A c \in DOMAIN cells :
            cells[c].content.k = "Ok" =>
                /\ <<cells[c].key, cells[c].type_id>> \in DOMAIN waiters
                /\ waiters[<<cells[c].key, cells[c].type_id>>] = c)
    /\ [](\A p \in Procs :
            (res[p] # NoCell /\ cells[res[p]].content.k = "Ok") =>
                /\ value[p] = NoValue
                /\ own[p] = NoCell
                /\ pc[p] \in {"read", "done"}
                /\ pc[p] = "done" => result[p] = ReadExisting(cells[res[p]].content.x))

\* a request called after a successful initialization has ended has returned
\* ReadExisting, and the Success is still stored
C8_Witness ==
    \E p, q \in Procs :
        /\ pc[q] = "done" /\ result[q].k = "Initialized" /\ ~cells[own[q]].wlock
        /\ pc[p] = "done" /\ res[p] = own[q] /\ result[p] = ReadExisting(result[q].x)
        /\ SlotOf(p) \in DOMAIN waiters /\ waiters[SlotOf(p)] = own[q]
        /\ \E r \in Procs : pc[r] = "idle"

\* C9 (panic propagation): a writer whose closure panicked ends its request
\* with that panic and with no InitResult; and when the write lock of its
\* cell is free, the cell is empty and not in the map.
C9_PanicPropagation ==
    /\ \A p \in Procs :
          (pc[p] = "done" /\ value[p].k = "Panic") => result[p] = InitPanic(value[p].x)
    /\ \A c \in DOMAIN cells :
          (cells[c].out.k = "Panic" /\ ~cells[c].wlock) =>
              /\ cells[c].content = None
              /\ ~InMap(c)

\* the writer's panic has left its call, while a reader still waits to read
\* its cell
C9_Witness ==
    \E p, q \in Procs :
        /\ pc[p] = "done" /\ result[p].k = "InitPanic"
        /\ ~cells[own[p]].wlock
        /\ pc[q] = "read" /\ res[q] = own[p]

\* C10 as claimed: a waiter (a request that has read an empty cell) ends
\* with the fatal retry exhaustion when every closure run for its
\* (key, type_id) has panicked, and otherwise (no closure having returned an
\* error or nothing) ends seeing an attempt succeed, or with the exhaustion.
C10_Original ==
    \A p \in Procs :
        (pc[p] = "done" /\ retries[p] >= 1 /\ stats[SlotOf(p)].errs = 0) =>
            IF stats[SlotOf(p)].panics = stats[SlotOf(p)].execs
              THEN result[p].k = "TooManyRetries"
              ELSE result[p].k \in {"ReadExisting", "Initialized", "TooManyRetries"}

\* C10 (panic recovery for waiters), amended: a requester that reads the cell
\* of a panicked writer gets no value or error from it: it retries, or ends
\* with the fatal retry exhaustion exactly when its count of empty reads has
\* reached MAX_RETRIES.  A request that has retried ends with what a later
\* cell holds (ReadExisting, InitErr), or, having won a later insert, with
\* the outcome of its own closure (Initialized, InitErr, its own panic).
C10_PanicRecovery ==
    \A p \in Procs :
        /\ retries[p] <= MAX_RETRIES
        /\ pc[p] # "done" => retries[p] < MAX_RETRIES
        /\ (pc[p] = "done" /\ res[p] # NoCell /\ cells[res[p]].out.k = "Panic")
              => result[p].k = "TooManyRetries"
        /\ pc[p] = "done" =>
              /\ result[p].k = "TooManyRetries" <=> (retries[p] = MAX_RETRIES)
              /\ result[p].k = "TooManyRetries" => (res[p] # NoCell /\ cells[res[p]].content = None)
              /\ result[p].k \in {"ReadExisting", "InitErr", "Initialized", "InitPanic", "TooManyRetries"}
              /\ result[p].k = "ReadExisting" => (res[p] # NoCell /\ cells[res[p]].content = SomeOk(result[p].x))
              /\ result[p].k \in {"Initialized", "InitPanic"} =>
                    (own[p] # NoCell /\ result[p].x = value[p].x)
              /\ result[p].k = "InitErr" =>
                    \/ own[p] # NoCell /\ value[p].k \in {"Err", "None"}
                    \/ res[p] # NoCell /\ cells[res[p]].content.k = "Err"

\* after a panic, one waiter has retried, won the insert and ended with the
\* panic of its own closure, and another has ended with the retry exhaustion
C10_Witness ==
    \E p, q \in Procs :
        /\ pc[p] = "done" /\ retries[p] >= 1 /\ result[p].k = "InitPanic"
        /\ pc[q] = "done" /\ retries[q] = MAX_RETRIES /\ result[q].k = "TooManyRetries"
        /\ SlotOf(p) = SlotOf(q)

\* C11 (retry bound): a request's retry counter is the number of its reads
\* of an empty cell; after an empty read that leaves the counter below
\* MAX_RETRIES the request is back at the top of the loop (where it makes a
\* fresh cell), so that it has made one pass more than it has read empty
\* cells; it ends with 'Too many retries' exactly when the counter has
\* reached MAX_RETRIES, carrying that count, and then makes no further pass.
\* So no request makes more than MAX_RETRIES passes, and none ends with
\* 'Too many retries' after fewer than MAX_RETRIES empty reads.
C11_RetryBound ==
    \A p \in Procs :
        /\ retries[p] = Len(emptyReads[p])
        /\ attempts[p] <= MAX_RETRIES
        /\ pc[p] = "idle" => (attempts[p] = 0 /\ retries[p] = 0)
        /\ pc[p] = "loop" => (retries[p] >= 1 /\ retries[p] < MAX_RETRIES /\ attempts[p] = retries[p])
        /\ pc[p] \in {"init", "remove", "return", "read"} =>
              (retries[p] < MAX_RETRIES /\ attempts[p] = retries[p] + 1)
        /\ pc[p] = "done" =>
              IF result[p].k = "TooManyRetries"
                THEN /\ result[p] = TooManyRetries(MAX_RETRIES)
                     /\ retries[p] = MAX_RETRIES
                     /\ attempts[p] = MAX_RETRIES
                ELSE /\ retries[p] < MAX_RETRIES
                     /\ attempts[p] = retries[p] + 1

\* one request has ended with 'Too many retries' after MAX_RETRIES passes and
\* as many empty reads, and another has made a second pass after one empty
\* read and ended otherwise
C11_Witness ==
    \E p, q \in Procs :
        /\ pc[p] = "done" /\ result[p] = TooManyRetries(MAX_RETRIES)
        /\ attempts[p] = MAX_RETRIES /\ Len(emptyReads[p]) = MAX_RETRIES
        /\ pc[q] = "done" /\ retries[q] = 1 /\ attempts[q] = 2
        /\ result[q].k # "TooManyRetries"

\* res.read() is the one place where a requester waits
Blocked(p) == pc[p] = "read" /\ cells[res[p]].wlock
\* the next requester to call
NextCaller(p) == pc[p] = "idle" /\ \A q \in Procs : q < p => pc[q] # "idle"
\* the key may be used by the next call (keys are numbered in the order of first use)
KeyCallable(ky) == \A k \in Keys : k < ky => \E q \in Procs : pc[q] # "idle" /\ key[q] = k

\* C12 (no global lock): a requester waits only on the cell of a writer for
\* its own (key, type_id) that has not ended; every other requester under
\* way can take its next step whatever the others do; and the next caller
\* can call for any (key, type_id) under which nothing is stored, win the
\* insert and go on to its closure, also while writers for other
\* (key, type_id) pairs run theirs.
C12_NoGlobalLock ==
    [](/\ \A p \in Procs :
             Blocked(p) =>
                 \E w \in Procs :
                     /\ SlotOf(w) = SlotOf(p) /\ own[w] = res[p]
                     /\ pc[w] \in {"init", "remove", "return"}
       /\ \A p \in Procs :
             (pc[p] \in {"loop", "init", "remove", "return", "read"} /\ ~Blocked(p))
                 => ENABLED Progress(p)
       /\ \A p \in Procs, ky \in Keys :
             (NextCaller(p) /\ KeyCallable(ky)) =>
                 /\ <<ky, UnitType>> \notin DOMAIN waiters =>
                       ENABLED (StartCall(p, "init_or_read", ky, UnitType) /\ pc'[p] = "init")
                 /\ \A E \in TryErrTypes :
                       <<ky, E>> \notin DOMAIN waiters =>
                           ENABLED (StartCall(p, "try_init_or_read", ky, E) /\ pc'[p] = "init")
                 /\ <<ky, AbsenceType>> \notin DOMAIN waiters =>
                       ENABLED (StartCall(p, "optionally_init_or_read", ky, AbsenceType)
                                   /\ pc'[p] = "init"))

\* while one writer is still in its closure, two requests called after it,
\* one for another key and one for its key and another type_id, have each
\* inserted a cell, run their closure and returned Initialized
C12_Witness ==
    \E p, q, r \in Procs :
        /\ pc[p] = "init" /\ q > p /\ r > p
        /\ pc[q] = "done" /\ key[q] # key[p] /\ result[q] = Initialized(q) /\ attempts[q] = 1
        /\ pc[r] = "done" /\ key[r] = key[p] /\ type_id[r] # type_id[p]
        /\ result[r] = Initialized(r) /\ attempts[r] = 1

\* C13 (an empty read means a panic): every cell a requester has read and
\* found empty is the cell of another requester whose closure panicked; a
\* cell whose writer's closure has not yet returned or panicked is
\* write-locked, so that no reader gets its read lock; a cell that is empty
\* with its write lock free is one whose writer's closure panicked; and a
\* reader that ended with ReadExisting or InitErr read a cell whose writer's
\* closure returned that value or that error (nothing), never one whose
\* writer's closure panicked.
C13_EmptyMeansPanic ==
    /\ \A p \in Procs : \A i \in 1..Len(emptyReads[p]) :
          /\ emptyReads[p][i] \in DOMAIN cells
          /\ cells[emptyReads[p][i]].out.k = "Panic"
          /\ cells[emptyReads[p][i]].owner # p
    /\ \A c \in DOMAIN cells :
          /\ cells[c].out = NoValue => (cells[c].wlock /\ cells[c].content = None)
          /\ pc[cells[c].owner] = "init" => (cells[c].wlock /\ own[cells[c].owner] = c)
          /\ (cells[c].content = None /\ ~cells[c].wlock) => cells[c].out.k = "Panic"
    /\ \A p \in Procs :
          (pc[p] = "done" /\ res[p] # NoCell) =>
              /\ result[p].k = "ReadExisting" =>
                    /\ cells[res[p]].out.k \in {"Value", "Ok", "Some"}
                    /\ result[p].x = cells[res[p]].out.x
              /\ result[p].k = "InitErr" => cells[res[p]].out.k \in {"Err", "None"}
              /\ cells[res[p]].out.k = "Panic" => result[p].k = "TooManyRetries"

\* a requester that read the empty cell of a panicked writer has retried and
\* is now in its own closure, and another requester that read the same empty
\* cell waits for it, on its write-locked cell
C13_Witness ==
    \E p, q \in Procs :
        /\ pc[p] = "init" /\ Len(emptyReads[p]) = 1 /\ cells[own[p]].wlock
        /\ pc[q] = "read" /\ res[q] = own[p] /\ emptyReads[q] = emptyReads[p]

\* C14 (write-once cell): a cell is created empty; a step changes the
\* content of a cell only when the cell is empty and write-locked and its
\* writer has not been through its closure, the step is the step of the
\* requester that created and inserted it coming out of its closure, and the
\* new content is a Success or a Failure; a content that is a Success or a
\* Failure never changes; a cell stays in existence while it is referred
\* to.  So every requester that ended on reading a cell ended with what the
\* cell holds, two readers of one cell ended alike, and a cell read empty
\* is still empty.
C14_WriteOnce ==
    /\ [][/\ \A c \in DOMAIN cells' \ DOMAIN cells : cells'[c].content = None
          /\ \A c \in DOMAIN cells :
                /\ c \in DOMAIN cells'
                /\ cells'[c].owner = cells[c].owner
                /\ cells'[c].content # cells[c].content =>
                      /\ cells[c].content = None /\ cells[c].out = NoValue /\ cells[c].wlock
                      /\ cells'[c].content.k \in {"Ok", "Err"}
                      /\ own[cells[c].owner] = c
                      /\ pc[cells[c].owner] = "init" /\ pc'[cells[c].owner] # "init"
                /\ cells[c].content.k \in {"Ok", "Err"} => cells'[c].content = cells[c].content]_vars
    /\ [](\A p \in Procs :
            /\ (pc[p] = "done" /\ res[p] # NoCell) =>
                  /\ cells[res[p]].content.k = "Ok" => result[p] = ReadExisting(cells[res[p]].content.x)
                  /\ cells[res[p]].content.k = "Err" => result[p] = InitErr(cells[res[p]].content.x)
                  /\ cells[res[p]].content.k = "None" => result[p].k = "TooManyRetries"
                  /\ \A q \in Procs : (pc[q] = "done" /\ res[q] = res[p]) => result[q] = result[p]
            /\ \A i \in 1..Len(emptyReads[p]) : cells[emptyReads[p][i]].content = None)

\* a cell was filled with a Failure by its writer, and two readers of it and
\* the writer have all ended with that failure
C14_Witness ==
    \E c \in DOMAIN cells : \E p, q \in Procs :
        /\ cells[c].content.k = "Err" /\ ~cells[c].wlock
        /\ pc[cells[c].owner] = "done" /\ own[cells[c].owner] = c
        /\ p # q /\ pc[p] = "done" /\ pc[q] = "done" /\ res[p] = c /\ res[q] = c
        /\ result[p] = InitErr(cells[c].content.x) /\ result[q] = result[p]
        /\ result[cells[c].owner] = result[p]

\* C15 (map-content invariant): every cell in the map is stored under the
\* (key, type_id) it was made for, and either is write-locked by the
\* requester that inserted it, which has not ended, or holds a Success; a
\* cell whose write lock is free and that holds a Failure or is empty is not
\* in the map; and a writer whose closure failed or panicked and that is
\* about to release its write lock has its cell out of the map already.
C15_MapContent ==
    /\ \A ck \in DOMAIN waiters :
          /\ ck = <<cells[waiters[ck]].key, cells[waiters[ck]].type_id>>
          /\ \/ /\ cells[waiters[ck]].wlock
                /\ own[cells[waiters[ck]].owner] = waiters[ck]
                /\ pc[cells[waiters[ck]].owner] \in {"init", "remove", "return"}
             \/ cells[waiters[ck]].content.k = "Ok"
    /\ \A c \in DOMAIN cells :
          (~cells[c].wlock /\ cells[c].content.k \in {"Err", "None"}) => ~InMap(c)
    /\ \A p \in Procs :
          (pc[p] = "return" /\ value[p].k \in {"Err", "None", "Panic"}) =>
              (cells[own[p]].wlock /\ ~InMap(own[p]))

\* the map holds a released Success, a cell write-locked by a writer in its
\* closure, and nothing under a (key, type_id) whose writer, after a failure,
\* has removed its cell and not yet released it
C15_Witness ==
    \E p, q, r \in Procs :
        /\ pc[p] = "done" /\ InMap(own[p]) /\ ~cells[own[p]].wlock /\ cells[own[p]].content.k = "Ok"
        /\ pc[q] = "init" /\ InMap(own[q]) /\ cells[own[q]].wlock
        /\ pc[r] = "return" /\ value[r].k \in {"Err", "None"} /\ SlotOf(r) \notin DOMAIN waiters

\* C16 (termination): when closures terminate, threads run and the lock is
\* fair (FairSpec), every request that was called ends, with an InitResult
\* (Initialized, ReadExisting, InitErr), with the panic of its own closure,
\* or with 'Too many retries'; and in no state are there requests under way
\* none of which can take a step.
C16_Termination ==
    /\ \A p \in Procs :
          (pc[p] # "idle") ~>
              (/\ pc[p] = "done"
               /\ result[p].k \in {"Initialized", "ReadExisting", "InitErr", "InitPanic",
                                   "TooManyRetries"})
    /\ []((\E p \in Procs : pc[p] \notin {"idle", "done"})
              => \E q \in Procs : ENABLED Progress(q))

\* all requests have ended: one with the panic of its closure, one that had
\* waited for that writer and retried with ReadExisting, one with Initialized
C16_Witness ==
    /\ \A p \in Procs : pc[p] = "done"
    /\ \E p, q, r \in Procs :
          /\ result[p].k = "InitPanic"
          /\ retries[q] >= 1 /\ result[q].k = "ReadExisting"
          /\ result[r].k = "Initialized" /\ SlotOf(q) = SlotOf(r) /\ SlotOf(q) = SlotOf(p)

\* the requesters whose closure has run for (key, type_id) s
Executed(s) == {p \in Procs : SlotOf(p) = s /\ value[p] # NoValue}

\* C17 (a request runs its closure at most once, on the pass that won the
\* insert, which is its last): a closure starts only in a requester that
\* has not run it, on a pass that inserted the requester's own cell, still
\* the one stored; after it the requester makes no further pass and its
\* outcome is not replaced, and as many closures have run for a
\* (key, type_id) as it has requesters that ran theirs; a requester that ran
\* its closure ends with Initialized, InitErr or its panic, carrying what
\* its own closure produced; and one that ended with ReadExisting has not
\* run its closure.
C17_OwnClosureOnce ==
    /\ [][\A p \in Procs :
            /\ value'[p] # value[p] =>
                  /\ value[p] = NoValue /\ pc[p] = "init"
                  /\ own[p] # NoCell /\ cells[own[p]].owner = p
                  /\ SlotOf(p) \in DOMAIN waiters /\ waiters[SlotOf(p)] = own[p]
            /\ value[p] # NoValue =>
                  /\ attempts'[p] = attempts[p] /\ own'[p] = own[p]
                  /\ pc'[p] \in {"remove", "return", "done"}]_vars
    /\ [](\A s \in Slots : stats[s].execs = Cardinality(Executed(s)))
    /\ [](\A p \in Procs :
            /\ pc[p] = "done" =>
                  /\ value[p] # NoValue <=> result[p].k \in {"Initialized", "InitErr", "InitPanic"} /\ own[p] # NoCell
                  /\ result[p].k = "ReadExisting" => (value[p] = NoValue /\ own[p] = NoCell)
                  /\ result[p].k = "Initialized" =>
                        /\ value[p].k \in {"Value", "Ok", "Some"}
                        /\ result[p] = Initialized(value[p].x) /\ value[p].x = p
                  /\ result[p].k = "InitPanic" => value[p] = [k |-> "Panic", x |-> result[p].x]
            /\ value[p] # NoValue => cells[own[p]].out = value[p])

\* a requester that lost its first insert and read an empty cell has won its
\* second, run its closure and returned Initialized with its own value, and
\* another, which never ran its closure, has returned ReadExisting of it
C17_Witness ==
    \E p, q \in Procs :
        /\ pc[p] = "done" /\ attempts[p] = 2 /\ result[p] = Initialized(p) /\ value[p].x = p
        /\ pc[q] = "done" /\ value[q] = NoValue /\ res[q] = own[p] /\ result[q] = ReadExisting(p)

\* the other requesters for p's (key, type_id) whose closure panicked
PanickedOthers(p) ==
    {q \in Procs \ {p} : pc[q] # "idle" /\ SlotOf(q) = SlotOf(p) /\ value[q].k = "Panic"}

\* C18 (no cell is read twice by one request): the cells a request has
\* read and found empty are pairwise distinct cells of pairwise distinct
\* other requesters for its (key, type_id), each with its closure panicked,
\* its write lock released and its cell out of the map; the cell a request
\* is about to read is none of those it has read; its retry counter is the
\* number of those cells and so is at most the number of other requests for
\* its (key, type_id) whose closure panicked.
C18_DistinctPanickedCells ==
    \A p \in Procs :
        /\ \A i, j \in 1..Len(emptyReads[p]) :
              i # j =>
                  /\ emptyReads[p][i] # emptyReads[p][j]
                  /\ cells[emptyReads[p][i]].owner # cells[emptyReads[p][j]].owner
        /\ \A i \in 1..Len(emptyReads[p]) :
              /\ ~InMap(emptyReads[p][i])
              /\ ~cells[emptyReads[p][i]].wlock
              /\ cells[emptyReads[p][i]].owner \in PanickedOthers(p)
              /\ own[cells[emptyReads[p][i]].owner] = emptyReads[p][i]
              /\ pc[p] = "read" => res[p] # emptyReads[p][i]
        /\ retries[p] = Cardinality({emptyReads[p][i] : i \in 1..Len(emptyReads[p])})
        /\ retries[p] <= Cardinality(PanickedOthers(p))

\* one request has read the empty cells of two different panicked writers,
\* and one of these writers had itself read the empty cell of the other
C18_Witness ==
    \E p, q, r \in Procs :
        /\ Len(emptyReads[p]) = 2 /\ emptyReads[p] = <<own[r], own[q]>> /\ own[q] # own[r]
        /\ retries[p] = 2 /\ Cardinality(PanickedOthers(p)) = 2
        /\ emptyReads[q] = <<own[r]>> /\ Cardinality(PanickedOthers(q)) = 1
        /\ retries[r] = 0 /\ Cardinality(PanickedOthers(r)) = 1

\* C19 (removal only of one's own cell): a step of the protocol that takes
\* an entry out of the map is the remove_waiter of the writer that inserted
\* the cell stored there, after its closure failed, returned nothing or
\* panicked, and it changes no other entry; no step replaces the cell of an
\* entry; a writer about to call remove_waiter has its own, still
\* write-locked cell stored under its (key, type_id); and a pass that loses
\* the insert, like the read that follows it, leaves the map as it is.
\* (Spec has no call of remove_waiter from outside.)
C19_RemoveOwnCell ==
    /\ [][/\ \A ck \in DOMAIN waiters :
                (ck \notin DOMAIN waiters' \/ waiters'[ck] # waiters[ck]) =>
                    /\ ck \notin DOMAIN waiters'
                    /\ pc[cells[waiters[ck]].owner] = "remove"
                    /\ pc'[cells[waiters[ck]].owner] = "return"
                    /\ own[cells[waiters[ck]].owner] = waiters[ck]
                    /\ SlotOf(cells[waiters[ck]].owner) = ck
                    /\ value[cells[waiters[ck]].owner].k \in {"Err", "None", "Panic"}
                    /\ DOMAIN waiters' = DOMAIN waiters \ {ck}
          /\ \A p \in Procs :
                (pc[p] \in {"idle", "loop"} /\ pc'[p] = "read") => waiters' = waiters
          /\ \A p \in Procs :
                (pc[p] = "read" /\ pc'[p] # "read") => waiters' = waiters]_vars
    /\ [](\A p \in Procs :
            pc[p] = "remove" =>
                /\ SlotOf(p) \in DOMAIN waiters
                /\ waiters[SlotOf(p)] = own[p]
                /\ cells[own[p]].wlock)

\* a writer whose closure panicked has removed its cell, while the cell of a
\* writer for the same key and another type_id is still stored and a
\* requester that lost the insert against that writer waits on it
C19_Witness ==
    \E p, q, r \in Procs :
        /\ pc[p] = "return" /\ value[p].k = "Panic" /\ SlotOf(p) \notin DOMAIN waiters
        /\ pc[q] = "init" /\ key[q] = key[p] /\ type_id[q] # type_id[p]
        /\ waiters[SlotOf(q)] = own[q]
        /\ pc[r] = "read" /\ res[r] = own[q]
====
